---- MODULE Spec2Model ----
(***************************************************************************)
(* COVID-19 Italy tracker: the data pipeline of data.py (column pruning,   *)
(* metric derivation, window selection) and the ranking aggregation of     *)
(* report.py, as a state machine.                                          *)
(*                                                                         *)
(* A table is a record [status, columns, rows]: status is "ok" for a       *)
(* DataFrame, "none" when the function returned None, "raised" when the    *)
(* call ended with an exception.  A row is a function from column names    *)
(* to values, with the extra key "idx" holding the row's index label.      *)
(* Counts are integers; a missing raw value is NaN.  The positivity ratio  *)
(* is kept in hundredths of a percent (20.0 % is 2000), which is what      *)
(* round(x, 2) leaves of the float.                                        *)
(***************************************************************************)
EXTENDS Integers, Sequences, FiniteSets, TLC

VARIABLES
    pc,         \* show_report: "pruned", "derived", "selected";
                \* show_national_ranking: "collect", "build", "done"
    given,      \* the table as it was first given (a snapshot, never changed)
    dataset,    \* the table object the functions are given, as it is now
    derived,    \* what elaborate_data returned
    request,    \* the window request: [op, begin, end]
    window,     \* what the window selector returned
    results,    \* show_national_ranking: region code -> derived regional table
    regions,    \* show_national_ranking: the shared list of display names
    ratios,     \* show_national_ranking: the shared list of latest ratios
    queue,      \* tasks of the running Parallel call dispatched so far
    workers,    \* per worker thread: the task it runs and its next statement
    ranking,    \* the ranking table, once built
    completed,  \* elaborate_data: the finished tasks of the running Parallel
                \* call with their return values, in the order of completion
    prediction  \* what predict_data returned for the table of the report

pvars == <<given, dataset, derived, request, window, prediction>>
rvars == <<results, regions, ratios, queue, workers, ranking, completed>>
vars == <<pc, given, dataset, derived, request, window, prediction,
          results, regions, ratios, queue, workers, ranking, completed>>

\* ------------------------------------------------------------------ bounds
MaxRows == 2        \* rows of a pruned table whose test columns vary
MaxCount == 2       \* largest cumulative count / daily count in a cell
MaxDays == 5        \* rows of a pruned table handed to the window selector
NumRegions == 3     \* regions of the enumeration that take part in a ranking
cpus == 3           \* worker threads of a Parallel call

\* ------------------------------------------------------------------ values
\* A missing cell of a raw column (raw counts are never negative).
NaN == -1

isnan(x) == x = NaN

\* float subtraction: NaN propagates
fsub(a, b) ==
    IF isnan(a) \/ isnan(b) THEN [nan |-> TRUE, v |-> 0]
    ELSE [nan |-> FALSE, v |-> a - b]

Ok(v) == [ok |-> TRUE, val |-> v]
Raise == [ok |-> FALSE, val |-> 0]

\* int(x): ValueError on NaN
int(x) == IF x.nan THEN Raise ELSE Ok(x.v)

Abs(x) == IF x < 0 THEN -x ELSE x

\* round(num / den * 100, 2) in hundredths of a percent, den # 0:
\* nearest, ties to even, symmetric in the sign.
round2(num, den) ==
    LET n == Abs(num) * 10000
        d == Abs(den)
        q == n \div d
        r == n % d
        m == IF 2 * r > d \/ (2 * r = d /\ q % 2 = 1) THEN q + 1 ELSE q
    IN  IF (num < 0) # (den < 0) THEN -m ELSE m

\* ------------------------------------------------------------------ tables
Table(cols, rows) == [status |-> "ok", columns |-> cols, rows |-> rows]
NoneResult == [status |-> "none", columns |-> <<>>, rows |-> <<>>]
RaisedResult == [status |-> "raised", columns |-> <<>>, rows |-> <<>>]

Range(s) == {s[i] : i \in 1..Len(s)}

shape0(ds) == Len(ds.rows)

Labels(ds) == {ds.rows[i]["idx"] : i \in 1..Len(ds.rows)}

\* dataset.at[n, col]: the cell of the row labelled n
at(ds, n, col) ==
    LET i == CHOOSE i \in 1..Len(ds.rows) : ds.rows[i]["idx"] = n
    IN  ds.rows[i][col]

\* columns left by cleanup_data that the pipeline reads
PrunedColumns ==
    <<"data", "terapia_intensiva", "deceduti", "nuovi_positivi", "tamponi", "casi_testati">>

\* dataset[col] = values.  A frame with no rows takes its index from the
\* values (its other columns become NaN); otherwise the lengths must agree.
SetColumn(ds, col, values) ==
    LET cols == IF col \in Range(ds.columns) THEN ds.columns ELSE Append(ds.columns, col)
    IN  IF ds.status # "ok" THEN ds
        ELSE IF Len(ds.rows) = 0 /\ Len(values) > 0
        THEN Table(cols,
                [i \in 1..Len(values) |->
                    (col :> values[i]) @@ ("idx" :> i - 1)
                        @@ [c \in Range(ds.columns) |-> NaN]])
        ELSE IF Len(values) # Len(ds.rows) THEN RaisedResult
        ELSE Table(cols, [i \in 1..Len(ds.rows) |-> (col :> values[i]) @@ ds.rows[i]])

\* dataset.drop(columns=cs)
DropColumns(ds, cs) ==
    IF ds.status # "ok" THEN ds ELSE
    Table(SelectSeq(ds.columns, LAMBDA c : c \notin cs),
          [i \in 1..Len(ds.rows) |->
              [c \in DOMAIN ds.rows[i] \ cs |-> ds.rows[i][c]]])

\* dataset.drop(index=n): KeyError when no row carries the label
DropIndex(ds, n) ==
    IF ds.status # "ok" THEN ds
    ELSE IF n \notin Labels(ds) THEN RaisedResult
    ELSE Table(ds.columns, SelectSeq(ds.rows, LAMBDA r : r["idx"] # n))

\* mutant: the task works on the table it was passed
copy_Alias(ds) == [obj |-> "shared", table |-> ds]

\* dataset.copy(): a new object with the same contents
copy(ds) == [obj |-> "own", table |-> ds]

\* for n in range(lo, hi): dataset = dataset.drop(index=n)
RECURSIVE DropLoop(_, _, _)
DropLoop(ds, lo, hi) ==
    IF lo >= hi \/ ds.status # "ok" THEN ds
    ELSE DropLoop(DropIndex(ds, lo), lo + 1, hi)

\* -------------------------------------------------------- metric derivation
\* Parallel(cpus)(delayed(f)(n, dataset) for n in range(1, dataset.shape[0])):
\* one task per n of range(1, shape[0]); the results come back in the order of n
TaskRange(ds) == 1..(IF shape0(ds) > 1 THEN shape0(ds) - 1 ELSE 0)

AnyRaised(res) == \E i \in 1..Len(res) : ~res[i].ok

\* mutant: the sentinel for row 0 is not inserted
Insert0_NoSentinel(res) == [i \in 1..Len(res) |-> res[i].val]

\* res.insert(0, 0)
Insert0(res) == <<0>> \o [i \in 1..Len(res) |-> res[i].val]

calculate_tests_delta(n, ds) ==
    IF isnan(at(ds, n - 1, "casi_testati"))
    THEN int(fsub(at(ds, n, "tamponi"), at(ds, n - 1, "tamponi")))
    ELSE int(fsub(at(ds, n, "casi_testati"), at(ds, n - 1, "casi_testati")))

calculate_ratio(n, ds) ==
    IF at(ds, n, "testati") = 0
    THEN Ok(0)
    ELSE Ok(round2(at(ds, n, "nuovi_positivi"), at(ds, n, "testati")))

\* mutant: the delta is returned unclamped
calculate_deaths_delta_Unclamped(n, ds) ==
    Ok(at(ds, n, "deceduti") - at(ds, n - 1, "deceduti"))

calculate_deaths_delta(n, ds) ==
    LET delta == at(ds, n, "deceduti") - at(ds, n - 1, "deceduti")
    IN  IF delta >= 0 THEN Ok(delta) ELSE Ok(0)

\* mutant: the intensive-care delta is clamped at 0 like the deaths delta
calculate_icu_delta_Clamped(n, ds) ==
    LET delta == fsub(at(ds, n, "terapia_intensiva"), at(ds, n - 1, "terapia_intensiva"))
    IN  IF delta.nan THEN Raise ELSE IF delta.v >= 0 THEN Ok(delta.v) ELSE Ok(0)

calculate_icu_delta(n, ds) ==
    int(fsub(at(ds, n, "terapia_intensiva"), at(ds, n - 1, "terapia_intensiva")))

\* dataset.rename(columns={...})
RenameMap(c) ==
    CASE c = "data" -> "DATA"
      [] c = "nuovi_positivi" -> "N. POS."
      [] c = "testati" -> "TEST"
      [] c = "rapporto" -> "%"
      [] c = "terapia_intensiva" -> "T.I."
      [] c = "terapia_intensiva_diff" -> "DIFF."
      [] c = "morti" -> "MORTI"
      [] OTHER -> c

RenameColumns(ds) ==
    IF ds.status # "ok" THEN ds ELSE
    Table([i \in 1..Len(ds.columns) |-> RenameMap(ds.columns[i])],
          [i \in 1..Len(ds.rows) |->
              [k \in {RenameMap(c) : c \in DOMAIN ds.rows[i]} |->
                  ds.rows[i][CHOOSE c \in DOMAIN ds.rows[i] : RenameMap(c) = k]]])

ReportColumns == <<"DATA", "N. POS.", "TEST", "%", "T.I.", "DIFF.", "MORTI">>

\* dataset.loc[:, cols]: a new frame with these columns; KeyError if one is absent
LocColumns(ds, cols) ==
    IF ds.status # "ok" THEN ds
    ELSE IF ~(Range(cols) \subseteq Range(ds.columns)) THEN RaisedResult
    ELSE Table(cols,
            [i \in 1..Len(ds.rows) |->
                [c \in Range(cols) \cup {"idx"} |-> ds.rows[i][c]]])

\* the statements of elaborate_data after its last Parallel call: drop the
\* raw columns, rename, reorder into a new frame, drop row 0 of that frame
\* elaborate_data(dataset): out is the returned table, inp is the table the
\* caller passed, as the call leaves it (the columns are added, dropped and
\* renamed in place; only the last two statements work on a new frame).
Finish(d4) ==
    LET d5 == DropColumns(d4, {"tamponi", "casi_testati", "deceduti"})
        d6 == RenameColumns(d5)
        d7 == LocColumns(d6, ReportColumns)
        d8 == DropIndex(d7, 0)
    IN  [out |-> d8, inp |-> IF d6.status = "ok" THEN d6 ELSE d4]

elaborate_data(ds) ==
    LET tests == [n \in TaskRange(ds) |-> calculate_tests_delta(n, ds)]
    IN  IF AnyRaised(tests) THEN [out |-> RaisedResult, inp |-> ds]
        ELSE
        LET d1 == SetColumn(ds, "testati", Insert0(tests))
            ratio == [n \in TaskRange(d1) |-> calculate_ratio(n, d1)]
            d2 == SetColumn(d1, "rapporto", Insert0(ratio))
            deaths == [n \in TaskRange(d2) |-> calculate_deaths_delta(n, d2)]
            d3 == SetColumn(d2, "morti", Insert0(deaths))
            icus == [n \in TaskRange(d3) |-> calculate_icu_delta(n, d3)]
            d4 == SetColumn(d3, "terapia_intensiva_diff", Insert0(icus))
        IN  IF AnyRaised(icus) THEN [out |-> RaisedResult, inp |-> d3]
            ELSE Finish(d4)

\* ----------------------------------------------------------- window selector
\* mutant: the first-rows selection starts dropping one row early
HeadLoop_OneEarly(ds, quantity) == DropLoop(ds, quantity, shape0(ds) + 1)

\* for n in range(1 + quantity, dataset.shape[0] + 1): drop(index=n)
HeadLoop(ds, quantity) == DropLoop(ds, 1 + quantity, shape0(ds) + 1)

\* mutant: no bound check
select_data_head_Unchecked(ds, quantity) == HeadLoop(ds, quantity)

select_data_head(ds, quantity) ==
    IF quantity > shape0(ds) THEN NoneResult
    ELSE HeadLoop(ds, quantity)

\* mutant: the last-rows selection stops dropping one row early
select_data_tail_OneMore(ds, quantity) ==
    IF quantity > shape0(ds) THEN NoneResult
    ELSE DropLoop(ds, 1, shape0(ds) - quantity)

select_data_tail(ds, quantity) ==
    IF quantity > shape0(ds) THEN NoneResult
    ELSE DropLoop(ds, 1, shape0(ds) - (quantity - 1))

\* the second loop's range reads shape[0] of the table the first loop left
select_data_range(ds, begin, end) ==
    IF begin <= 0 THEN NoneResult
    ELSE IF end > shape0(ds) THEN NoneResult
    ELSE IF end <= begin THEN NoneResult
    ELSE LET d1 == DropLoop(ds, 1, begin)
         IN  DropLoop(d1, end, shape0(d1) + 1)

\* ------------------------------------------------------------- the pipeline
Counts == 0..MaxCount

\* one row of a pruned feed; the date is the day number, ascending with the index
RawRow(i, np, t, ct, d, icu) ==
    [idx |-> i, data |-> i, nuovi_positivi |-> np, tamponi |-> t,
     casi_testati |-> ct, deceduti |-> d, terapia_intensiva |-> icu]

NoRequest == [op |-> "none", begin |-> 0, end |-> 0]

EmptyMap == [c \in {} |-> NoneResult]
Idle == [task |-> 0, step |-> "idle"]
AllIdle == \A w \in 1..cpus : workers[w] = Idle

InitWith(t) ==
    /\ pc = "pruned"
    /\ given = t
    /\ dataset = t
    /\ derived = NoneResult
    /\ request = NoRequest
    /\ window = NoneResult
    /\ results = EmptyMap
    /\ regions = <<>>
    /\ ratios = <<>>
    /\ queue = 0
    /\ workers = [w \in 1..cpus |-> Idle]
    /\ ranking = <<>>
    /\ completed = <<>>
    /\ prediction = NoneResult

\* short feeds whose two test counts are free (validated count present or missing)
InitTests ==
    \E n \in 0..MaxRows :
        \E t \in [1..n -> Counts], ct \in [1..n -> Counts \cup {NaN}] :
            InitWith(Table(PrunedColumns,
                [i \in 1..n |-> RawRow(i - 1, 1, t[i], ct[i], 0, 0)]))

\* longer feeds from before the validated count existed: raw tests and new cases free
InitRawTests ==
    \E np \in [1..MaxRows + 1 -> Counts], t \in [1..MaxRows + 1 -> Counts] :
        InitWith(Table(PrunedColumns,
            [i \in 1..MaxRows + 1 |-> RawRow(i - 1, np[i], t[i], NaN, 0, 0)]))

\* feeds whose deaths and intensive-care counts are free
InitDeaths ==
    \E n \in 0..MaxRows + 1 :
        \E d \in [1..n -> Counts], icu \in [1..n -> Counts] :
            InitWith(Table(PrunedColumns,
                [i \in 1..n |-> RawRow(i - 1, 0, i, NaN, d[i], icu[i])]))

\* feeds of 0..MaxDays+1 days for the window selector
InitDays ==
    \E n \in 0..MaxDays + 1 :
        InitWith(Table(PrunedColumns,
            [i \in 1..n |-> RawRow(i - 1, i % 2, 2 * i, NaN, i, 1)]))

\* a feed of three days from before the validated count existed, with no
\* count of new cases on its first day
ScenarioFeed ==
    Table(PrunedColumns,
        << RawRow(0, NaN, 100, NaN, 5, 2),
           RawRow(1, 10, 150, NaN, 5, 3),
           RawRow(2, 25, 230, NaN, 7, 1) >>)

InitScenario == InitWith(ScenarioFeed)

\* show_report: dataset = elaborate_data(dataset)
Elaborate ==
    /\ pc = "pruned"
    /\ LET r == elaborate_data(dataset)
       IN  /\ derived' = r.out
           /\ dataset' = r.inp
    /\ pc' = "derived"
    /\ UNCHANGED <<given, request, window, prediction>>
    /\ UNCHANGED rvars

Requests == -1..MaxDays + 1

\* show_report, begin given and end not: select_data_head(dataset, int(begin))
SelectHead ==
    /\ pc = "derived" /\ derived.status = "ok"
    /\ \E k \in Requests :
        /\ request' = [op |-> "head", begin |-> k, end |-> 0]
        /\ window' = select_data_head(derived, k)
    /\ pc' = "selected"
    /\ UNCHANGED <<given, dataset, derived, prediction>>
    /\ UNCHANGED rvars

\* show_report, end given and begin not: select_data_tail(dataset, int(end))
SelectTail ==
    /\ pc = "derived" /\ derived.status = "ok"
    /\ \E k \in Requests :
        /\ request' = [op |-> "tail", begin |-> 0, end |-> k]
        /\ window' = select_data_tail(derived, k)
    /\ pc' = "selected"
    /\ UNCHANGED <<given, dataset, derived, prediction>>
    /\ UNCHANGED rvars

\* show_report, both given: select_data_range(dataset, int(begin), int(end))
SelectRange ==
    /\ pc = "derived" /\ derived.status = "ok"
    /\ \E b \in Requests, e \in Requests :
        /\ request' = [op |-> "range", begin |-> b, end |-> e]
        /\ window' = select_data_range(derived, b, e)
    /\ pc' = "selected"
    /\ UNCHANGED <<given, dataset, derived, prediction>>
    /\ UNCHANGED rvars

\* ------------------------------------------------------------ trend fitter
\* datetime.date.toordinal: the day number with 0001-01-01 as day 1 (the
\* dates of the model are day numbers counted from 0001-01-01 as day 0)
toordinal(d) == d + 1

RECURSIVE SumTo(_, _)
SumTo(f, n) == IF n = 0 THEN 0 ELSE f[n] + SumTo(f, n - 1)

\* LinearRegression().fit(x, y).predict(x) for one regressor with intercept,
\* as exact fractions num / den with a common den: the least-squares line
\* through the points (x[i], y[i]) evaluated at x[i]; the mean of y when all
\* x are equal (the minimum-norm solution).  ValueError for no sample.
LinearRegression(x, y) ==
    LET n == Len(x)
        Sx == SumTo(x, n)
        Sy == SumTo(y, n)
        Sxx == SumTo([i \in 1..n |-> x[i] * x[i]], n)
        Sxy == SumTo([i \in 1..n |-> x[i] * y[i]], n)
        D == n * Sxx - Sx * Sx
    IN  IF n = 0 THEN [status |-> "raised", values |-> <<>>]
        ELSE IF D = 0
        THEN [status |-> "ok", values |-> [i \in 1..n |-> [num |-> Sy, den |-> n]]]
        ELSE [status |-> "ok",
              values |-> [i \in 1..n |->
                  [num |-> (n * Sxy - Sx * Sy) * (n * x[i] - Sx) + Sy * D,
                   den |-> n * D]]]

\* mutant: the predictions come back in reverse row order
predict_data_Reversed(ds, value_label) ==
    LET x == [i \in 1..Len(ds.rows) |-> toordinal(ds.rows[i]["DATA"])]
        y == [i \in 1..Len(ds.rows) |-> ds.rows[i][value_label]]
        p == LinearRegression(x, y)
    IN  [p EXCEPT !.values = [i \in 1..Len(p.values) |-> p.values[Len(p.values) + 1 - i]]]

\* predict_data(dataset, value_label): x and y are the DATA ordinals and the
\* values of the column, by row position
predict_data(ds, value_label) ==
    LET x == [i \in 1..Len(ds.rows) |-> toordinal(ds.rows[i]["DATA"])]
        y == [i \in 1..Len(ds.rows) |-> ds.rows[i][value_label]]
    IN  LinearRegression(x, y)

\* the columns a trend line is offered for
ValueLabels == {"%", "T.I.", "MORTI"}

\* the table the report shows: the selected window, or the whole derived
\* table when neither begin nor end is given
Shown == IF pc = "derived" THEN derived ELSE window

\* show_report, options 1 to 3: show_plot(dataset, ..., value_label), which
\* calls predict_data(dataset.copy(), value_label)
ShowPlot ==
    /\ pc \in {"derived", "selected"}
    /\ Shown.status = "ok"
    /\ \E l \in ValueLabels :
        prediction' = [label |-> l, shown |-> Shown,
                       out |-> predict_data(copy(Shown).table, l)]
    /\ pc' = "plotted"
    /\ UNCHANGED <<given, dataset, derived, request, window>>
    /\ UNCHANGED rvars

NextWindow == Elaborate \/ SelectHead \/ SelectTail \/ SelectRange \/ ShowPlot

\* metric derivation over the bounded feeds
SpecDerive ==
    (InitTests \/ InitRawTests \/ InitDeaths \/ InitScenario) /\ [][Elaborate]_vars

\* derivation followed by one window request
SpecWindow == InitDays /\ [][NextWindow]_vars

\* ------------------------------------------------- derivation, task by task
\* the four Parallel calls of elaborate_data, in the order of the code
Stages == <<"tests", "ratio", "deaths", "icus">>

\* the delayed function of a call
StageTask(st, n, ds) ==
    CASE st = "tests" -> calculate_tests_delta(n, ds)
      [] st = "ratio" -> calculate_ratio(n, ds)
      [] st = "deaths" -> calculate_deaths_delta(n, ds)
      [] st = "icus" -> calculate_icu_delta(n, ds)

\* the column the results of a call are assigned to
StageColumn(st) ==
    CASE st = "tests" -> "testati"
      [] st = "ratio" -> "rapporto"
      [] st = "deaths" -> "morti"
      [] st = "icus" -> "terapia_intensiva_diff"

\* mutant: the list holds the results in the order the tasks completed
InOrder_Arrival(done) == [i \in 1..Len(done) |-> done[i].res]

\* Parallel(cpus)(...) returns the results as a list in the order of the
\* tasks, whatever the order they completed in
InOrder(done) ==
    [n \in 1..Len(done) |-> done[CHOOSE i \in 1..Len(done) : done[i].task = n].res]

\* three-day feeds from before the validated count existed; the cumulative
\* test count is free and may be missing
InitParallel ==
    \E t \in [1..MaxRows + 1 -> Counts \cup {NaN}] :
        InitWith(Table(PrunedColumns,
            [i \in 1..MaxRows + 1 |-> RawRow(i - 1, i, t[i], NaN, t[i] + 1, 2 * t[i])]))

\* elaborate_data is entered: the first Parallel call starts
StartElaborate ==
    /\ pc = "pruned"
    /\ pc' = "tests"
    /\ UNCHANGED pvars
    /\ UNCHANGED rvars

\* an idle worker takes the next task of range(1, dataset.shape[0])
\* (the workers are interchangeable: the idle one of lowest number takes it)
Dispatch(w) ==
    /\ pc \in Range(Stages)
    /\ workers[w] = Idle
    /\ \A v \in 1..w - 1 : workers[v] # Idle
    /\ queue < Cardinality(TaskRange(dataset))
    /\ queue' = queue + 1
    /\ workers' = [workers EXCEPT ![w] = [task |-> queue + 1, step |-> "calc"]]
    /\ UNCHANGED <<pc, results, regions, ratios, ranking, completed>>
    /\ UNCHANGED pvars

\* a worker finishes its task: the delayed function applied to n and the table
Complete(w) ==
    /\ workers[w].step = "calc"
    /\ completed' = Append(completed,
            [task |-> workers[w].task, res |-> StageTask(pc, workers[w].task, dataset)])
    /\ workers' = [workers EXCEPT ![w] = Idle]
    /\ UNCHANGED <<pc, results, regions, ratios, queue, ranking>>
    /\ UNCHANGED pvars

\* the Parallel call returns: insert(0, 0) and the column assignment, then
\* the next call, or after the last one the drop, rename, loc and drop(index=0);
\* an exception of a task is raised by the call
Gather ==
    /\ pc \in Range(Stages)
    /\ queue = Cardinality(TaskRange(dataset)) /\ AllIdle
    /\ LET res == InOrder(completed)
           d == SetColumn(dataset, StageColumn(pc), Insert0(res))
       IN  IF AnyRaised(res)
           THEN pc' = "derived" /\ derived' = RaisedResult /\ dataset' = dataset
           ELSE IF pc = "icus"
           THEN /\ pc' = "derived"
                /\ derived' = Finish(d).out
                /\ dataset' = Finish(d).inp
           ELSE /\ pc' = Stages[1 + CHOOSE i \in 1..Len(Stages) : Stages[i] = pc]
                /\ derived' = derived
                /\ dataset' = d
    /\ queue' = 0
    /\ completed' = <<>>
    /\ UNCHANGED <<results, regions, ratios, workers, ranking>>
    /\ UNCHANGED <<given, request, window, prediction>>

NextParallel ==
    \/ StartElaborate
    \/ \E w \in 1..cpus : Dispatch(w)
    \/ \E w \in 1..cpus : Complete(w)
    \/ Gather

\* metric derivation with the tasks of each Parallel call completing in any order
SpecParallel == InitParallel /\ [][NextParallel]_vars

\* ------------------------------------------------------- ranking aggregation
\* Region: (code, display name), in the order of the enumeration
Region ==
    << <<13, "Abruzzo">>, <<17, "Basilicata">>, <<18, "Calabria">>,
       <<15, "Campania">>, <<8, "Emilia-Romagna">>, <<6, "Friuli Venezia Giulia">>,
       <<12, "Lazio">>, <<7, "Liguria">>, <<3, "Lombardia">>, <<11, "Marche">>,
       <<14, "Molise">>, <<21, "P.A. Bolzano">>, <<22, "P.A. Trento">>,
       <<1, "Piemonte">>, <<16, "Puglia">>, <<20, "Sardegna">>, <<19, "Sicilia">>,
       <<9, "Toscana">>, <<10, "Umbria">>, <<2, "Valle d'Aosta">>, <<5, "Veneto">> >>

\* the regions that take part: the first NumRegions of the enumeration
Regions == SubSeq(Region, 1, NumRegions)

RegionalColumns ==
    <<"data", "codice_regione", "denominazione_regione", "terapia_intensiva",
      "deceduti", "nuovi_positivi", "tamponi", "casi_testati">>

\* region=None
None == <<>>

\* the columns dropped from every feed (the feeds of the ranking model are
\* written without them)
UnusedColumns ==
    {"stato", "ricoverati_con_sintomi", "totale_ospedalizzati",
     "isolamento_domiciliare", "totale_positivi", "variazione_totale_positivi",
     "dimessi_guariti", "casi_da_sospetto_diagnostico", "casi_da_screening",
     "totale_casi", "note"}

\* mutant: the rows keep the index labels they had
reset_index_Kept(ds) == ds

\* dataset.reset_index(drop=True): the rows are labelled 0, 1, 2, ... in order
reset_index(ds) ==
    IF ds.status # "ok" THEN ds
    ELSE Table(ds.columns, [i \in 1..Len(ds.rows) |-> ("idx" :> i - 1) @@ ds.rows[i]])

\* cleanup_data(dataset, region): drop the unused columns; for a region keep
\* the region's rows, drop the region columns, renumber the index from 0.
cleanup_data(ds, region) ==
    IF ds.status # "ok" THEN RaisedResult
    ELSE IF region = None THEN DropColumns(ds, UnusedColumns)
    ELSE IF ~("codice_regione" \in Range(ds.columns)) THEN RaisedResult
    ELSE
    LET d0 == DropColumns(ds, UnusedColumns)
        kept == SelectSeq(d0.rows, LAMBDA r : r["codice_regione"] = region[1])
        d1 == DropColumns(Table(d0.columns, kept),
                          {"codice_regione", "denominazione_regione", "lat", "long"})
    IN  reset_index(d1)

\* a national feed as parsed, of 0..MaxRows+2 days
NationalFeed(n) ==
    Table(<<"data", "stato">> \o SubSeq(PrunedColumns, 2, Len(PrunedColumns))
              \o <<"totale_casi">>,
          [i \in 1..n |->
              RawRow(i - 1, 1, i, NaN, 0, 0) @@ ("stato" :> "ITA") @@ ("totale_casi" :> i)])

\* a regional feed as parsed: row i reports the region of code codes[i]
RegionalFeed(codes) ==
    Table(<<"data", "stato">> \o SubSeq(RegionalColumns, 2, Len(RegionalColumns))
              \o <<"totale_casi">>,
          [i \in 1..Len(codes) |->
              RawRow(i - 1, 1, i, NaN, 0, 0) @@ ("stato" :> "ITA") @@ ("totale_casi" :> i)
                  @@ ("codice_regione" :> codes[i])
                  @@ ("denominazione_regione" :>
                        Regions[CHOOSE r \in 1..NumRegions : Regions[r][1] = codes[i]][2])])

\* show_report(dataset_path, region): the feed is parsed; the national feed
\* when no region is asked for, else a regional feed with any rows
InitParsed ==
    \E region \in {None} \cup Range(Regions) :
        \E n \in 0..MaxRows + 2 :
            \E codes \in [1..n -> {Regions[r][1] : r \in 1..NumRegions}] :
                LET t == IF region = None THEN NationalFeed(n) ELSE RegionalFeed(codes)
                IN  /\ region = None => \A i \in 1..n : codes[i] = Regions[1][1]
                    /\ pc = "parsed"
                    /\ given = t
                    /\ dataset = t
                    /\ derived = NoneResult
                    /\ request = [op |-> "none", begin |-> 0, end |-> 0, region |-> region]
                    /\ window = NoneResult
                    /\ prediction = NoneResult
                    /\ results = EmptyMap
                    /\ regions = <<>>
                    /\ ratios = <<>>
                    /\ queue = 0
                    /\ workers = [w \in 1..cpus |-> Idle]
                    /\ ranking = <<>>
                    /\ completed = <<>>

\* show_report: dataset = cleanup_data(dataset, region)
Cleanup ==
    /\ pc = "parsed"
    /\ dataset' = cleanup_data(dataset, request.region)
    /\ pc' = "pruned"
    /\ UNCHANGED <<given, derived, request, window, prediction>>
    /\ UNCHANGED rvars

\* column pruning over the bounded parsed feeds
SpecCleanup == InitParsed /\ [][Cleanup]_vars

\* collect_regional_dataset: stored is the table put under results[region],
\* shared is the table passed by the caller as the task leaves it (cleanup_data
\* and elaborate_data change their argument in place).
collect_regional_dataset(ds, region) ==
    LET regional == copy(ds)
        cleaned == cleanup_data(regional.table, region)
        el == IF cleaned.status = "ok" THEN elaborate_data(cleaned)
              ELSE [out |-> RaisedResult, inp |-> cleaned]
    IN  [stored |-> el.out,
         shared |-> IF regional.obj = "shared" /\ el.inp.status = "ok"
                    THEN el.inp ELSE ds]

\* mutant: the slot n is assigned instead of inserted before
insert_Overwrite(list, n, x) ==
    IF n >= Len(list) THEN Append(list, x) ELSE [list EXCEPT ![n + 1] = x]

\* list.insert(n, x): before position n, at the end when the list is shorter
insert(list, n, x) ==
    IF n >= Len(list) THEN Append(list, x)
    ELSE SubSeq(list, 1, n) \o <<x>> \o SubSeq(list, n + 1, Len(list))

\* results.get(region).tail(1).loc[:, "%"]
LatestRatio(tbl) == tbl.rows[Len(tbl.rows)]["%"]

\* a regional feed of two days: every region tests MaxCount people on the
\* second day and finds np[r] of them positive
InitRanking ==
    \E np \in [1..NumRegions -> Counts] :
        LET row(day, r) ==
                [idx |-> day * NumRegions + r - 1, data |-> day,
                 codice_regione |-> Regions[r][1],
                 denominazione_regione |-> Regions[r][2],
                 nuovi_positivi |-> IF day = 0 THEN 0 ELSE np[r],
                 tamponi |-> day * MaxCount, casi_testati |-> NaN,
                 deceduti |-> 0, terapia_intensiva |-> 0]
            t == Table(RegionalColumns,
                    [i \in 1..2 * NumRegions |->
                        row((i - 1) \div NumRegions, ((i - 1) % NumRegions) + 1)])
        IN  /\ pc = "collect"
            /\ given = t
            /\ dataset = t
            /\ derived = NoneResult
            /\ request = NoRequest
            /\ window = NoneResult
            /\ results = EmptyMap
            /\ regions = <<>>
            /\ ratios = <<>>
            /\ queue = 0
            /\ workers = [w \in 1..cpus |-> Idle]
            /\ ranking = <<>>
            /\ completed = <<>>
            /\ prediction = NoneResult

\* mutant: the call returns as soon as its last task is handed out
ParallelReturned_Dispatched == queue = NumRegions

\* a Parallel(...)(...) call returns when every task of it has completed
ParallelReturned == queue = NumRegions /\ AllIdle

\* an idle worker thread takes the next task of the running Parallel call
\* (the threads are interchangeable: the idle one of lowest number takes it)
TakeTask(w) ==
    /\ pc \in {"collect", "build"}
    /\ workers[w] = Idle
    /\ \A v \in 1..w - 1 : workers[v] # Idle
    /\ queue < NumRegions
    /\ queue' = queue + 1
    /\ workers' = [workers EXCEPT ![w] =
            [task |-> queue + 1, step |-> IF pc = "collect" THEN "collect" ELSE "regions"]]
    /\ UNCHANGED <<pc, results, regions, ratios, ranking, completed>>
    /\ UNCHANGED pvars

\* collect_regional_dataset(dataset, region, results); an exception of a
\* task ends the run
Collect(w) ==
    /\ workers[w].step = "collect"
    /\ LET region == Regions[workers[w].task]
           res == collect_regional_dataset(dataset, region)
       IN  /\ dataset' = res.shared
           /\ IF res.stored.status = "ok"
              THEN results' = (region[1] :> res.stored) @@ results /\ pc' = pc
              ELSE results' = results /\ pc' = "raised"
    /\ workers' = [workers EXCEPT ![w] = Idle]
    /\ UNCHANGED <<regions, ratios, queue, ranking, completed>>
    /\ UNCHANGED <<given, derived, request, window, prediction>>

\* the first Parallel call has returned; regions = [], ratios = []
StartBuild ==
    /\ pc = "collect" /\ ParallelReturned
    /\ pc' = "build"
    /\ queue' = 0
    /\ regions' = <<>>
    /\ ratios' = <<>>
    /\ UNCHANGED <<results, workers, ranking, completed>>
    /\ UNCHANGED pvars

\* build_ranking_lists, first statement: regions.insert(n, region.value[1])
InsertRegion(w) ==
    /\ workers[w].step = "regions"
    /\ regions' = insert(regions, workers[w].task - 1, Regions[workers[w].task][2])
    /\ workers' = [workers EXCEPT ![w].step = "ratios"]
    /\ UNCHANGED <<pc, results, ratios, queue, ranking, completed>>
    /\ UNCHANGED pvars

\* build_ranking_lists, second statement: ratios.insert(n, results.get(region)...)
\* (results.get gives None for a region without entry, and None has no tail)
InsertRatio(w) ==
    /\ workers[w].step = "ratios"
    /\ LET code == Regions[workers[w].task][1]
       IN  IF code \in DOMAIN results
           THEN /\ ratios' = insert(ratios, workers[w].task - 1, LatestRatio(results[code]))
                /\ pc' = pc
           ELSE ratios' = ratios /\ pc' = "raised"
    /\ workers' = [workers EXCEPT ![w] = Idle]
    /\ UNCHANGED <<results, regions, queue, ranking, completed>>
    /\ UNCHANGED pvars

\* rows in descending order of "%"
Descending(rows) ==
    \A i \in 1..Len(rows) - 1 : rows[i]["%"] >= rows[i + 1]["%"]

\* the second Parallel call has returned: ranking["REGIONE"] = regions,
\* ranking["%"] = ratios, sort_values(by="%", ascending=False), index from 1.
\* The default sort algorithm is not a stable one: rows of equal ratio may
\* come out in any order.
\* (Assigning a column of another length than the frame's raises ValueError.)
BuildRanking ==
    /\ pc = "build" /\ ParallelReturned
    /\ IF Len(ratios) # Len(regions)
       THEN pc' = "raised" /\ ranking' = ranking
       ELSE /\ \E perm \in Permutations(1..Len(regions)) :
                LET rows == [i \in 1..Len(regions) |->
                                ("idx" :> i) @@ ("REGIONE" :> regions[perm[i]])
                                    @@ ("%" :> ratios[perm[i]])]
                IN  /\ Descending(rows)
                    /\ ranking' = rows
            /\ pc' = "done"
    /\ UNCHANGED <<results, regions, ratios, queue, workers, completed>>
    /\ UNCHANGED pvars

NextRanking ==
    \/ \E w \in 1..cpus : TakeTask(w)
    \/ \E w \in 1..cpus : Collect(w)
    \/ StartBuild
    \/ \E w \in 1..cpus : InsertRegion(w)
    \/ \E w \in 1..cpus : InsertRatio(w)
    \/ BuildRanking

\* show_national_ranking over the bounded regional feeds
SpecRanking == InitRanking /\ [][NextRanking]_vars

\* ------------------------------------------------------------------ claims
\* cell of input row n (zero-based) of the pruned table
In(n, col) == given.rows[n + 1][col]

Elaborated == pc \in {"derived", "selected"}

Max(a, b) == IF a >= b THEN a ELSE b

\* C1: every derived row has ratio 0 when TEST = 0 or N. POS. > TEST, and
\* round(N. POS. / TEST * 100, 2) otherwise, so no ratio exceeds 100 %.
C1_RatioGuard ==
    Elaborated /\ derived.status = "ok" =>
        \A i \in 1..Len(derived.rows) :
            LET r == derived.rows[i]
            IN  /\ r["%"] = IF r["TEST"] = 0 \/ r["N. POS."] > r["TEST"] THEN 0
                            ELSE round2(r["N. POS."], r["TEST"])
                /\ r["%"] <= 10000

\* the tests delta the claim C2 asks for at input row n >= 1
ExpectedTests(n) ==
    IF ~isnan(In(n, "casi_testati")) /\ ~isnan(In(n - 1, "casi_testati"))
    THEN In(n, "casi_testati") - In(n - 1, "casi_testati")
    ELSE In(n, "tamponi") - In(n - 1, "tamponi")

\* C2: for every row n >= 1, TEST[n] is the validated diff when both validated
\* counts are present and the raw cumulative diff in every other case, and
\* the derivation does not raise.
C2_TestsDelta ==
    Elaborated /\ shape0(given) >= 2 =>
        /\ derived.status = "ok"
        /\ \A n \in 1..shape0(given) - 1 :
            /\ n \in Labels(derived)
            /\ at(derived, n, "TEST") = ExpectedTests(n)

\* C5: a pruned table of zero rows or one row derives to an empty table, without raising.
C5_EmptyInput ==
    Elaborated /\ shape0(given) <= 1 =>
        derived.status = "ok" /\ derived.rows = <<>>

C5_Witness ==
    Elaborated /\ shape0(given) = 0 /\ derived.status = "ok" /\ shape0(dataset) = 1

\* C6: a pruned table of N >= 2 rows derives to exactly N - 1 rows, the input
\* rows 1..N-1 in order; input row 0 is not among them.
C6_RowCount ==
    Elaborated /\ shape0(given) >= 2 =>
        /\ derived.status = "ok"
        /\ Len(derived.rows) = shape0(given) - 1
        /\ \A i \in 1..Len(derived.rows) :
            /\ derived.rows[i]["idx"] = i
            /\ derived.rows[i]["DATA"] = In(i, "data")

\* C7: every derived row n has MORTI = max(0, deceduti[n] - deceduti[n-1]),
\* so no derived row has a negative death delta.
C7_DeathClamp ==
    Elaborated /\ derived.status = "ok" =>
        \A i \in 1..Len(derived.rows) :
            LET n == derived.rows[i]["idx"]
            IN  /\ n \in 1..shape0(given) - 1
                /\ derived.rows[i]["MORTI"] =
                       Max(0, In(n, "deceduti") - In(n - 1, "deceduti"))
                /\ derived.rows[i]["MORTI"] >= 0

C7_Witness ==
    /\ Elaborated /\ derived.status = "ok"
    /\ \E i \in 1..Len(derived.rows) :
        /\ In(i, "deceduti") < In(i - 1, "deceduti")
        /\ derived.rows[i]["MORTI"] = 0

Selected(op) == pc = "selected" /\ request.op = op

\* C4: an accepted Range(table, begin, end) returns exactly the rows at
\* positions begin..end inclusive, in order.
C4_RangeInclusive ==
    Selected("range") /\ request.begin >= 1 /\ request.begin < request.end
        /\ request.end <= shape0(derived) =>
        /\ window.status = "ok"
        /\ window.rows = SubSeq(derived.rows, request.begin, request.end)

OutOfBounds ==
    \/ Selected("head") /\ request.begin > shape0(derived)
    \/ Selected("tail") /\ request.end > shape0(derived)
    \/ Selected("range") /\ (request.begin <= 0 \/ request.end > shape0(derived)
                                \/ request.end <= request.begin)

\* C8: Head or Tail with k above the row count, and Range with begin <= 0,
\* end above the row count or end <= begin, return no table.
C8_OutOfBoundsRejected == OutOfBounds => window.status = "none"

C8_Witness ==
    /\ Selected("head") /\ shape0(derived) >= 1
    /\ request.begin = shape0(derived) + 1
    /\ window.status = "none"

\* C9: Head(table, k) with 1 <= k <= M returns the first k rows in order.
C9_HeadRows ==
    Selected("head") /\ request.begin >= 1 /\ request.begin <= shape0(derived) =>
        /\ window.status = "ok"
        /\ window.rows = SubSeq(derived.rows, 1, request.begin)

C9_Witness ==
    /\ Selected("head") /\ request.begin >= 2 /\ request.begin < shape0(derived)
    /\ window.status = "ok" /\ Len(window.rows) = request.begin

\* C10: Tail(table, k) with 1 <= k <= M returns the last k rows in order.
C10_TailRows ==
    Selected("tail") /\ request.end >= 1 /\ request.end <= shape0(derived) =>
        /\ window.status = "ok"
        /\ window.rows =
               SubSeq(derived.rows, shape0(derived) - request.end + 1, shape0(derived))

C10_Witness ==
    /\ Selected("tail") /\ request.end >= 2 /\ request.end < shape0(derived)
    /\ window.status = "ok" /\ Len(window.rows) = request.end

\* code of the region with display name nm
CodeOf(nm) == Regions[CHOOSE r \in 1..NumRegions : Regions[r][2] = nm][1]

\* C3: whatever the interleaving of the list-building tasks, every row of
\* the final ranking table pairs a region's name with that region's latest ratio.
C3_RowsPaired ==
    pc = "done" =>
        \A i \in 1..Len(ranking) :
            ranking[i]["%"] = LatestRatio(results[CodeOf(ranking[i]["REGIONE"])])

\* position of the region with display name nm in the enumeration
RegionIndex(nm) == CHOOSE r \in 1..NumRegions : Regions[r][2] = nm

\* the latest ratio of the r-th region, derived from the feed as given
LatestOf(r) == LatestRatio(collect_regional_dataset(given, Regions[r]).stored)

\* C11: two runs on the same feed give the same ranking whatever the
\* schedules; one of the two may be the run with a single worker, so every
\* run's table is a table the sequential run produces (rows of equal ratio
\* in whatever order the sort leaves them).
C11_SameAsSequentialRun ==
    pc = "done" =>
        /\ Len(ranking) = NumRegions
        /\ \E perm \in Permutations(1..NumRegions) :
            \A i \in 1..NumRegions :
                /\ ranking[i]["REGIONE"] = Regions[perm[i]][2]
                /\ ranking[i]["%"] = LatestOf(perm[i])

\* C12: the ranking is in descending order of ratio, and rows of equal
\* ratio are in the order of the Region enumeration.
C12_StableDescending ==
    pc = "done" =>
        /\ Descending(ranking)
        /\ \A i \in 1..Len(ranking), j \in 1..Len(ranking) :
            i < j /\ ranking[i]["%"] = ranking[j]["%"] =>
                RegionIndex(ranking[i]["REGIONE"]) < RegionIndex(ranking[j]["REGIONE"])

\* C13: the ranking has exactly one row per region, and its rows carry the
\* ranks 1, 2, ... in table order.
C13_OneRowPerRegion ==
    pc = "done" =>
        /\ Len(ranking) = NumRegions
        /\ \A r \in 1..NumRegions :
            Cardinality({i \in 1..Len(ranking) :
                            ranking[i]["REGIONE"] = Regions[r][2]}) = 1
        /\ \A i \in 1..Len(ranking) : ranking[i]["idx"] = i

\* a finished ranking whose names were inserted out of enumeration order
C13_Witness ==
    /\ pc = "done"
    /\ Len(ranking) = NumRegions
    /\ regions # [r \in 1..NumRegions |-> Regions[r][2]]

\* collect tasks that have completed
Collected == {t \in 1..NumRegions :
                /\ pc # "collect" \/ t <= queue
                /\ \A w \in 1..cpus : ~(workers[w].step = "collect" /\ workers[w].task = t)}

\* C17: while the collect tasks run, the shared source table stays as it
\* was parsed, the results map holds exactly the entries of the completed
\* tasks, each the region's own derived table (a function of the feed, not
\* of the interleaving), and after the call every region has its entry.
C17_CollectIsolated ==
    /\ dataset = given
    /\ DOMAIN results = {Regions[t][1] : t \in Collected}
    /\ \A t \in Collected :
        results[Regions[t][1]] =
            elaborate_data(cleanup_data(given, Regions[t])).out
    /\ pc \in {"build", "done"} => Collected = 1..NumRegions

\* a later task has stored its table while an earlier one is still running
C17_Witness ==
    /\ pc = "collect"
    /\ Regions[2][1] \in DOMAIN results
    /\ \E w \in 1..cpus : workers[w].step = "collect" /\ workers[w].task = 1

\* C20: whenever a build_ranking_lists task is running, no collect task is
\* running any more and every region's table is stored, so that no lookup
\* fails.
C20_BuildAfterCollect ==
    /\ pc # "raised"
    /\ \A w \in 1..cpus :
        workers[w].step \in {"regions", "ratios"} =>
            /\ \A v \in 1..cpus : workers[v].step # "collect"
            /\ \A r \in 1..NumRegions :
                /\ Regions[r][1] \in DOMAIN results
                /\ results[Regions[r][1]].status = "ok"

\* a build task is about to look up its region's table
C20_Witness ==
    /\ pc = "build"
    /\ \E w \in 1..cpus : workers[w].step = "ratios"

\* C14: metric derivation returns a new table and leaves the table it was
\* passed as it was (same columns, same rows, same values).
C14_InputUnchanged ==
    pc = "derived" /\ derived.status = "ok" => dataset = given

\* C15: from the three-day feed with cumulative tests 100, 150, 230, new
\* cases NaN, 10, 25, deaths 5, 5, 7 and intensive care 2, 3, 1, the derived
\* table has two rows: the second day with 50 new tests, ratio 20.00, death
\* delta 0, intensive-care delta 1, and the third with 80, 31.25, 2, -2.
C15_Scenario ==
    given = ScenarioFeed /\ pc = "derived" =>
        /\ derived.status = "ok"
        /\ Len(derived.rows) = 2
        /\ LET r2 == derived.rows[1]
               r3 == derived.rows[2]
           IN  /\ r2["DATA"] = 1 /\ r2["TEST"] = 50 /\ r2["%"] = 2000
               /\ r2["MORTI"] = 0 /\ r2["DIFF."] = 1
               /\ r3["DATA"] = 2 /\ r3["TEST"] = 80 /\ r3["%"] = 3125
               /\ r3["MORTI"] = 2 /\ r3["DIFF."] = -2

\* the three-day feed has been derived
C15_Witness == given = ScenarioFeed /\ pc = "derived" /\ Len(derived.rows) = 2

\* C16: with the tasks of every Parallel call completing in any order, the
\* derived table (and the table left to the caller) is the one the
\* sequential computation gives; every result is in the row of its own
\* index; and while the ratios are computed the new-tests column is
\* complete.
C16_ParallelAsSequential ==
    /\ pc = "derived" =>
        /\ derived = elaborate_data(given).out
        /\ dataset = elaborate_data(given).inp
    /\ pc \in {"ratio", "deaths", "icus"} =>
        /\ "testati" \in Range(dataset.columns)
        /\ \A n \in TaskRange(given) :
            at(dataset, n, "testati") = calculate_tests_delta(n, given).val
    /\ \A i \in 1..Len(completed) :
        completed[i].res = StageTask(pc, completed[i].task, dataset)

\* the ratio tasks have completed out of order with different results
C16_Witness ==
    /\ pc = "ratio"
    /\ Len(completed) = 2
    /\ completed[1].task = 2
    /\ completed[1].res # completed[2].res

\* C18: for a region, cleanup_data gives exactly the rows of the feed whose
\* region code is the region's, in the feed's order, labelled 0, 1, 2, ...;
\* without a region it gives all rows, labelled from 0.
C18_RegionRows ==
    pc = "pruned" /\ "region" \in DOMAIN request =>
        LET own == IF request.region = None THEN given.rows
                   ELSE SelectSeq(given.rows,
                            LAMBDA r : r["codice_regione"] = request.region[1])
        IN  /\ dataset.status = "ok"
            /\ Len(dataset.rows) = Len(own)
            /\ \A i \in 1..Len(own) :
                /\ dataset.rows[i]["idx"] = i - 1
                /\ \A c \in Range(dataset.columns) : dataset.rows[i][c] = own[i][c]

\* a region's rows have been taken from a feed that starts with another
\* region's row
C18_Witness ==
    /\ pc = "pruned" /\ "region" \in DOMAIN request
    /\ request.region # None
    /\ Len(dataset.rows) >= 2
    /\ given.rows[1]["codice_regione"] # request.region[1]

\* C19: for a table of at least one row predict_data returns one prediction
\* per row, in row order: the values lie on one line over the rows' own
\* dates, and that line is the least-squares one (the residuals sum to zero
\* and are orthogonal to the dates).
C19_OnePredictionPerRow ==
    pc = "plotted" /\ Len(prediction.shown.rows) >= 1 =>
        LET rows == prediction.shown.rows
            n == Len(rows)
            p == prediction.out.values
            x == [i \in 1..n |-> toordinal(rows[i]["DATA"])]
            y == [i \in 1..n |-> rows[i][prediction.label]]
        IN  /\ prediction.out.status = "ok"
            /\ Len(p) = n
            /\ \A i \in 1..n : p[i].den = p[1].den /\ p[i].den # 0
            /\ \A i \in 1..n, j \in 1..n, k \in 1..n :
                (p[j].num - p[i].num) * (x[k] - x[i])
                    = (p[k].num - p[i].num) * (x[j] - x[i])
            /\ SumTo([i \in 1..n |-> p[i].num - y[i] * p[i].den], n) = 0
            /\ SumTo([i \in 1..n |-> (p[i].num - y[i] * p[i].den) * x[i]], n) = 0

\* a trend line over a window of several days whose values rise or fall
C19_Witness ==
    /\ pc = "plotted"
    /\ Len(prediction.out.values) >= 3
    /\ prediction.out.values[1].num # prediction.out.values[2].num

\* the row at position i of the derived table is among the rows of the window
Kept(i) == \E m \in 1..Len(window.rows) : window.rows[m] = derived.rows[i]

\* C21: the rows an accepted Range(table, begin, end) keeps form one
\* contiguous block of positions of the table (between two kept rows every
\* row is kept), and no row from the second loop's start position up to the
\* table's last row is kept.
C21_RangeContiguous ==
    Selected("range") /\ window.status = "ok" =>
        /\ \A i \in 1..shape0(derived), j \in 1..shape0(derived), k \in 1..shape0(derived) :
            i < k /\ k < j /\ Kept(i) /\ Kept(j) => Kept(k)
        /\ \A i \in request.end..shape0(derived) : ~Kept(i)

====
